---- MODULE Spec2Model ----
(***************************************************************************)
(* The relay hub of NexusCtrl (src/backend/app.py): the connection         *)
(* registry MetricsConnectionManager and the two websocket endpoints       *)
(* ws_metrics (viewers) and ws_agent (agents).                             *)
(*                                                                         *)
(* The hub is one asyncio event loop: a handler runs without interruption  *)
(* from one `await` that suspends to the next, so every action below is    *)
(* the code between two suspension points of one handler.                  *)
(*                                                                         *)
(* The monitoring agent (src/backend/agent.py) is a second asyncio         *)
(* program: run_agent with its publish loop, and the task handle_commands. *)
(* It is modelled with the server it dials as its environment.             *)
(***************************************************************************)
EXTENDS Integers, Sequences, FiniteSets, TLC

\* ------------------------------------------------------------------ bounds
\* Transports (websocket connections) the hub ever accepts in one run.
MaxConn == 3
\* Data messages (telemetry and commands) the hub ever reads in one run.
MaxMsg == 2
\* Snapshots the agent publishes on one transport.
MaxTick == 10
\* Command texts the agent reads on one transport.
MaxCmd == 2
\* The server ids that connections address (the {sid} of the endpoint path).
ServerIds == {1, 2}

Conn == 1..MaxConn

\* --------------------------------------------------------------- constants
\* src/backend/app.py:36, the default of Settings.AGENT_SECRET
Settings_AGENT_SECRET == "nexusctrl-agent-secret"
\* src/backend/agent.py:11, the credential built into the agent
AGENT_SECRET == "dev-secret-key-change-me"
\* Settings reads the environment and a .env file; the repository ships
\* neither, so the field keeps its default.
ConfiguredSecrets == {Settings_AGENT_SECRET}
\* The close code of a refused agent connection (app.py:663-664).
RejectCode == 4001

\* ------------------------------------------------------------ wire texts
\* A text frame is empty, not JSON, or the serialisation of a JSON value in
\* one of two layouts: json.dumps' default separators (", " and ": ") or
\* the compact separators of WebSocket.send_json.
NoVal == [t |-> "none", x |-> "none"]
Empty == [k |-> "empty", v |-> NoVal, f |-> "none"]
Garbage == [k |-> "bad", v |-> NoVal, f |-> "none"]
Json(v, f) == [k |-> "json", v |-> v, f |-> f]
NoText == [k |-> "none", v |-> NoVal, f |-> "none"]

\* JSON values: the object {"secret": s}, an object without a "secret" key
\* (a telemetry snapshot, a command), and a value that is no object.
Auth(s) == [t |-> "auth", x |-> s]
Obj(x) == [t |-> "dict", x |-> x]
Arr == [t |-> "list", x |-> "none"]

\* Mutant: a text that is not JSON is passed on as it is.
Decodes_AnyText(text) == text.k \in {"json", "bad"}
\* json.loads(text) raises JSONDecodeError unless the text is JSON.
Decodes(text) == text.k = "json"
json_loads(text) == text.v
\* json.dumps(value) with the default separators.
json_dumps(v) == Json(v, "spaced")
\* Mutant: the hub wraps the payload in an envelope of its own.
send_json_text_Envelope(v) == Json([t |-> "dict", x |-> "envelope"], "compact")
\* WebSocket.send_json(value) serialises with compact separators.
send_json_text(v) == Json(v, "compact")

\* What the peers may send.
HandshakeTexts ==
    { Garbage, Json(Arr, "spaced"), Json(Obj("m1"), "spaced"),
      Json(Auth(AGENT_SECRET), "spaced"),
      Json(Auth(Settings_AGENT_SECRET), "spaced") }
TelemetryTexts ==
    { Empty, Garbage, Json(Obj("m1"), "spaced"), Json(Obj("m2"), "compact") }
CommandTexts ==
    { Empty, Garbage, Json(Obj("kill"), "compact") }

\* ---------------------------------------------------------------- state
VARIABLES
    settings_AGENT_SECRET, \* settings.AGENT_SECRET as configured
    client_connections,    \* Dict[int, Set[WebSocket]]: sid -> viewer set
    agent_connections,     \* Dict[int, WebSocket], as a set of <<sid, ws>> items
    role,                  \* per transport: "none", "viewer", "agent"
    sid,                   \* per transport: the sid of its endpoint path
    pc,                    \* per transport: where its handler is suspended
    open,                  \* per transport: a send on it succeeds
    closeCode,             \* per transport: the code the hub closed it with
    exc,                   \* per transport: the exception that ended its loop
    first,                 \* per agent transport: the first text it sent
    bc,                    \* per agent transport: its running broadcast
    rx,                    \* per viewer transport: the texts delivered to it
    tx,                    \* per agent transport: the texts delivered to it
    admitted,              \* per sid: the agent transports installed, in order
    popped,                \* per sid, since the last install: "no" exit ran
                           \* disconnect_agent, the mapped agent's "own" exit
                           \* did, or only "stale" ones did
    lastCall,              \* per <<sid, ws>>: last of connect_client/disconnect_client
    ncmd,                  \* per viewer transport: JSON commands read from it
    nmsg,                  \* data messages read so far
    \* --- the agent (agent.py)
    agent_pc,              \* run_agent: the await it is suspended in
    websocket,             \* the agent's transport: "none", "open", "closed"
    hub_reply,             \* what the server did with the agent's first text
    counter,               \* run_agent's tick counter
    metrics,               \* the snapshot whose send is suspended
    sent,                  \* the texts sent on the current transport
    command_task,          \* the task running handle_commands
    handled,               \* outcomes of the commands read on the transport
    agent_exc,             \* the exception travelling to `except Exception`
    prev_take_ss           \* history: take_ss(counter) just before the last
                           \* `counter = 0` (TRUE before the first)

agentVars == << agent_pc, websocket, hub_reply, counter, metrics, sent,
                command_task, handled, agent_exc, prev_take_ss >>

hubVars == << client_connections, agent_connections, role, sid, pc, open,
              closeCode, exc, first, bc, rx, tx, admitted, popped, lastCall,
              ncmd, nmsg >>

vars == << settings_AGENT_SECRET, client_connections, agent_connections, role,
           sid, pc, open, closeCode, exc, first, bc, rx, tx, admitted, popped,
           lastCall, ncmd, nmsg, agent_pc, websocket, hub_reply, counter,
           metrics, sent, command_task, handled, agent_exc, prev_take_ss >>

\* -------------------------------------------------------------- registry
\* key in dict
HasKey(d, key) == \E it \in d : it[1] = key
\* The values the registry holds under key.
Lookup(d, key) == { it[2] : it \in { i \in d : i[1] = key } }
\* dict.pop(key, None)
PopItem(d, key) == { it \in d : it[1] # key }

\* Mutant: the registry keeps a list of sessions and appends to it.
SetItem_Append(d, key, value) == d \cup { <<key, value>> }
\* Mutant: dict.setdefault(key, value), the first session stays.
SetItem_KeepFirst(d, key, value) ==
    IF HasKey(d, key) THEN d ELSE d \cup { <<key, value>> }
\* dict[key] = value on the item-set form of agent_connections.
SetItem(d, key, value) == { it \in d : it[1] # key } \cup { <<key, value>> }

\* Mutant: the key is assigned a new set holding only the newcomer.
connect_client_Replace(cc, ws, s) ==
    [ k \in DOMAIN cc \cup {s} |-> IF k = s THEN {ws} ELSE cc[k] ]
\* MetricsConnectionManager.connect_client, after websocket.accept()
connect_client(cc, ws, s) ==
    [ k \in DOMAIN cc \cup {s} |->
        IF k = s
        THEN (IF s \in DOMAIN cc THEN cc[s] ELSE {}) \cup {ws}
        ELSE cc[k] ]

\* Mutant: the handle stays in its set.
disconnect_client_Keep(cc, ws, s) == cc
\* MetricsConnectionManager.disconnect_client
disconnect_client(cc, ws, s) ==
    IF s \in DOMAIN cc
    THEN IF cc[s] \ {ws} = {}
         THEN [ k \in DOMAIN cc \ {s} |-> cc[k] ]
         ELSE [ cc EXCEPT ![s] = @ \ {ws} ]
    ELSE cc

\* MetricsConnectionManager.connect_agent, after websocket.accept()
connect_agent(ac, ws, s) == SetItem(ac, s, ws)

\* Mutant: the exit of one agent clears the whole map.
disconnect_agent_Clear(ac, s) == {}
\* Mutant: the mapping outlives the handler.
disconnect_agent_Keep(ac, s) == ac
\* MetricsConnectionManager.disconnect_agent
disconnect_agent(ac, s) == PopItem(ac, s)

\* ---------------------------------------------------------------- frames
\* The frame of a running broadcast_to_clients: its payload, the set
\* iterator (the size it was created with, the members then, the members
\* it has yielded, whether disconnect_client has since deleted the set it
\* walks), and the local `dead`.
NoFrame ==
    [ active |-> FALSE, data |-> NoVal, used |-> 0, start |-> {},
      visited |-> {}, dead |-> {}, deleted |-> FALSE ]
NewFrame(v, members) ==
    [ active |-> TRUE, data |-> v, used |-> Cardinality(members),
      start |-> members, visited |-> {}, dead |-> {}, deleted |-> FALSE ]

\* The snapshot slot before the first collect_metrics.
NoMetrics ==
    [ t |-> "none", x |-> "none", screenshot |-> "absent",
      screenshot_status |-> "absent", screenshot_error |-> "absent" ]

\* The hub after construction: empty registries, no transport accepted.
HubInit ==
    /\ client_connections = << >>
    /\ agent_connections = {}
    /\ role = [ c \in Conn |-> "none" ]
    /\ sid = [ c \in Conn |-> 0 ]
    /\ pc = [ c \in Conn |-> "idle" ]
    /\ open = [ c \in Conn |-> FALSE ]
    /\ closeCode = [ c \in Conn |-> 0 ]
    /\ exc = [ c \in Conn |-> "none" ]
    /\ first = [ c \in Conn |-> NoText ]
    /\ bc = [ c \in Conn |-> NoFrame ]
    /\ rx = [ c \in Conn |-> << >> ]
    /\ tx = [ c \in Conn |-> << >> ]
    /\ admitted = [ s \in ServerIds |-> << >> ]
    /\ popped = [ s \in ServerIds |-> "no" ]
    /\ lastCall = [ p \in ServerIds \X Conn |-> "none" ]
    /\ ncmd = [ c \in Conn |-> 0 ]
    /\ nmsg = 0

\* The agent when run_agent is entered: at the top of `while True`.
AgentInit ==
    /\ agent_pc = "disconnected"
    /\ websocket = "none"
    /\ hub_reply = "none"
    /\ counter = 0
    /\ metrics = NoMetrics
    /\ sent = << >>
    /\ command_task = "none"
    /\ handled = << >>
    /\ agent_exc = "none"
    /\ prev_take_ss = TRUE

Init ==
    /\ settings_AGENT_SECRET \in ConfiguredSecrets
    /\ HubInit
    /\ AgentInit


\* --------------------------------------------------------------- helpers
\* Transports are numbered in the order the hub accepts them.
Fresh(c) == pc[c] = "idle" /\ \A d \in Conn : d < c => pc[d] # "idle"

\* The exit of a viewer handler: the `finally` of ws_metrics. When
\* disconnect_client deletes the emptied set, every iterator still walking
\* that set object is left on a set that stays empty.
ViewerExit(c, e) ==
    LET s == sid[c]
        gone == s \in DOMAIN client_connections
                /\ client_connections[s] \ {c} = {}
    IN  /\ client_connections' = disconnect_client(client_connections, c, s)
        /\ bc' = [ a \in Conn |->
                     IF gone /\ bc[a].active /\ sid[a] = s
                     THEN [ bc[a] EXCEPT !.deleted = TRUE ]
                     ELSE bc[a] ]
        /\ lastCall' = [ lastCall EXCEPT ![<<s, c>>] = "remove" ]
        /\ pc' = [ pc EXCEPT ![c] = "done" ]
        /\ open' = [ open EXCEPT ![c] = FALSE ]
        /\ exc' = [ exc EXCEPT ![c] = e ]

\* The exit of an agent handler after admission: the `finally` of ws_agent.
AgentExit(c, e) ==
    /\ agent_connections' = disconnect_agent(agent_connections, sid[c])
    /\ popped' = [ popped EXCEPT ![sid[c]] =
                      IF Lookup(agent_connections, sid[c]) = {c} \/ @ = "own"
                      THEN "own" ELSE "stale" ]
    /\ bc' = [ bc EXCEPT ![c] = NoFrame ]
    /\ pc' = [ pc EXCEPT ![c] = "done" ]
    /\ open' = [ open EXCEPT ![c] = FALSE ]
    /\ exc' = [ exc EXCEPT ![c] = e ]

\* ------------------------------------------------------ the peers' moves
\* The remote end of a transport goes away; the handler has not noticed yet.
PeerClose(c) ==
    /\ pc[c] \notin {"idle", "done"}
    /\ open[c]
    /\ open' = [ open EXCEPT ![c] = FALSE ]
    /\ UNCHANGED << agentVars, settings_AGENT_SECRET, client_connections,
                    agent_connections, role, sid, pc, closeCode, exc, first,
                    bc, rx, tx, admitted, popped, lastCall, ncmd, nmsg >>

\* ------------------------------------------------------------ ws_metrics
\* A viewer connects: connect_client accepts and registers the transport.
ViewerConnect(c, s) ==
    /\ Fresh(c)
    /\ role' = [ role EXCEPT ![c] = "viewer" ]
    /\ sid' = [ sid EXCEPT ![c] = s ]
    /\ pc' = [ pc EXCEPT ![c] = "v_loop" ]
    /\ open' = [ open EXCEPT ![c] = TRUE ]
    /\ client_connections' = connect_client(client_connections, c, s)
    /\ lastCall' = [ lastCall EXCEPT ![<<s, c>>] = "add" ]
    /\ UNCHANGED << agentVars, settings_AGENT_SECRET, agent_connections, closeCode, exc,
                    first, bc, rx, tx, admitted, popped, ncmd, nmsg >>

\* Mutant: the command goes to every registered agent, whatever its sid.
relay_targets_AllAgents(ac, s) == { it[2] : it \in ac }
\* app.py:655, `if sid in agent_connections: agent_connections[sid]`: the
\* transport a command is relayed to, none when the key is missing.
relay_targets(ac, s) == IF HasKey(ac, s) THEN Lookup(ac, s) ELSE {}

\* receive_text returns `data`: one pass of the loop of ws_metrics. Texts the
\* peer sent before it went away are still read.
ViewerRecv(c, data) ==
    /\ role[c] = "viewer" /\ pc[c] = "v_loop"
    /\ nmsg < MaxMsg
    /\ nmsg' = nmsg + 1
    /\ ncmd' = [ ncmd EXCEPT ![c] = IF Decodes(data) THEN @ + 1 ELSE @ ]
    /\ UNCHANGED << agentVars, settings_AGENT_SECRET, agent_connections, role, sid,
                    closeCode, first, rx, admitted, popped >>
    /\ IF data.k = "empty"
       THEN UNCHANGED << client_connections, pc, open, exc, bc, tx, lastCall >>
       ELSE IF ~Decodes(data)
       THEN ViewerExit(c, "JSONDecodeError") /\ UNCHANGED tx
       ELSE IF relay_targets(agent_connections, sid[c]) = {}
       THEN UNCHANGED << client_connections, pc, open, exc, bc, tx, lastCall >>
       ELSE \E a \in relay_targets(agent_connections, sid[c]) :
              IF open[a]
              THEN /\ tx' = [ tx EXCEPT
                                ![a] = Append(@, json_dumps(json_loads(data))) ]
                   /\ UNCHANGED << client_connections, pc, open, exc, bc,
                                   lastCall >>
              ELSE ViewerExit(c, "SendError") /\ UNCHANGED tx

\* receive_text raises WebSocketDisconnect.
ViewerDisconnect(c) ==
    /\ role[c] = "viewer" /\ pc[c] = "v_loop"
    /\ ~open[c]
    /\ ViewerExit(c, "WebSocketDisconnect")
    /\ UNCHANGED << agentVars, settings_AGENT_SECRET, agent_connections, role, sid,
                    closeCode, first, rx, tx, admitted, popped, ncmd, nmsg >>


\* -------------------------------------------------------------- ws_agent
\* dict.get("secret") of the decoded handshake: AttributeError unless the
\* value is an object, None when the key is missing.
HasGet(v) == v.t # "list"
GetSecret(v) == IF v.t = "auth" THEN v.x ELSE "None"

\* Mutant: any handshake that is a JSON object passes.
HandshakeOK_AnyObject(data, secret) ==
    Decodes(data) /\ HasGet(json_loads(data))
\* The test of app.py:663-664: the handshake passes.
HandshakeOK(data, secret) ==
    /\ Decodes(data)
    /\ HasGet(json_loads(data))
    /\ GetSecret(json_loads(data)) = secret

\* An agent transport is accepted; its handler waits for the first text.
AgentConnect(c, s) ==
    /\ Fresh(c)
    /\ role' = [ role EXCEPT ![c] = "agent" ]
    /\ sid' = [ sid EXCEPT ![c] = s ]
    /\ pc' = [ pc EXCEPT ![c] = "a_hs" ]
    /\ open' = [ open EXCEPT ![c] = TRUE ]
    /\ UNCHANGED << agentVars, settings_AGENT_SECRET, client_connections,
                    agent_connections, closeCode, exc, first, bc, rx, tx,
                    admitted, popped, lastCall, ncmd, nmsg >>

\* The first receive_text returns `data`: close(4001) and return, or install
\* the transport under its sid and enter the loop.
AgentHandshake(c, data) ==
    /\ role[c] = "agent" /\ pc[c] = "a_hs"
    /\ first' = [ first EXCEPT ![c] = data ]
    /\ IF HandshakeOK(data, settings_AGENT_SECRET)
       THEN /\ agent_connections' = SetItem(agent_connections, sid[c], c)
            /\ admitted' = [ admitted EXCEPT ![sid[c]] = Append(@, c) ]
            /\ popped' = [ popped EXCEPT ![sid[c]] = "no" ]
            /\ pc' = [ pc EXCEPT ![c] = "a_loop" ]
            /\ UNCHANGED << open, closeCode >>
       ELSE /\ closeCode' = [ closeCode EXCEPT ![c] = RejectCode ]
            /\ pc' = [ pc EXCEPT ![c] = "done" ]
            /\ open' = [ open EXCEPT ![c] = FALSE ]
            /\ UNCHANGED << agent_connections, admitted, popped >>
    /\ UNCHANGED << agentVars, settings_AGENT_SECRET, client_connections, role, sid, exc,
                    bc, rx, tx, lastCall, ncmd, nmsg >>

\* The first receive_text raises WebSocketDisconnect: `except Exception`
\* closes with 4001 and returns.
AgentHandshakeDisconnect(c) ==
    /\ role[c] = "agent" /\ pc[c] = "a_hs"
    /\ ~open[c]
    /\ closeCode' = [ closeCode EXCEPT ![c] = RejectCode ]
    /\ pc' = [ pc EXCEPT ![c] = "done" ]
    /\ UNCHANGED << agentVars, settings_AGENT_SECRET, client_connections,
                    agent_connections, role, sid, open, exc, first, bc, rx,
                    tx, admitted, popped, lastCall, ncmd, nmsg >>

\* The set iterator's next() raises RuntimeError("Set changed size during
\* iteration") when the set's size differs from the size the iterator was
\* created with; the set of a deleted key stays empty.
IterRaises(fr, cc, s) ==
    fr.deleted \/ Cardinality(cc[s]) # fr.used

\* What next() may yield: a member not yielded yet.
IterYields(fr, cc, s) == cc[s] \ fr.visited

\* next() may raise StopIteration: every member that was in the set when the
\* iterator was created and still is has been yielded (one added since may
\* or may not be yielded).
IterMayStop(fr, cc, s) == (cc[s] \cap fr.start) \subseteq fr.visited

\* app.py:442-443, the locals after `try: await ws.send_json(data)` /
\* `except Exception: dead.add(ws)`.
bc_try_send(fr, ws, ok) ==
    [ fr EXCEPT !.visited = @ \cup {ws},
                !.dead = IF ok THEN @ ELSE @ \cup {ws} ]

\* Mutant: a delivery is put in front of what the viewer has received.
bc_deliver_Prepend(rxs, ws, data, ok) ==
    IF ok THEN [ rxs EXCEPT ![ws] = << send_json_text(data) >> \o @ ] ELSE rxs
\* app.py:442, what the viewers have received after ws.send_json(data).
bc_deliver(rxs, ws, data, ok) ==
    IF ok THEN [ rxs EXCEPT ![ws] = Append(@, send_json_text(data)) ] ELSE rxs

\* Mutant: the marked transports are never removed.
bc_remove_dead_Skip(cc, s, dead) == cc
\* app.py:444, `for ws in dead: self.client_connections[server_id].discard(ws)`
bc_remove_dead(cc, s, dead) == [ cc EXCEPT ![s] = @ \ dead ]

\* broadcast_to_clients from the iterator's next() up to the next send that
\* suspends, or to the return. The RuntimeError of next() is not among the
\* exceptions ws_agent catches: its `finally` runs and the handler ends.
BroadcastStep(c, fr) ==
    LET s == sid[c] IN
    IF IterRaises(fr, client_connections, s)
    THEN /\ AgentExit(c, "RuntimeError")
         /\ UNCHANGED << client_connections, rx >>
    ELSE \/ \E ws \in IterYields(fr, client_connections, s) :
              /\ rx' = bc_deliver(rx, ws, fr.data, open[ws])
              /\ bc' = [ bc EXCEPT ![c] = bc_try_send(fr, ws, open[ws]) ]
              /\ pc' = [ pc EXCEPT ![c] = "a_bcast" ]
              /\ UNCHANGED << client_connections, agent_connections, popped,
                              open, exc >>
         \/ /\ IterMayStop(fr, client_connections, s)
            /\ client_connections' =
                   bc_remove_dead(client_connections, s, fr.dead)
            /\ bc' = [ bc EXCEPT ![c] = NoFrame ]
            /\ pc' = [ pc EXCEPT ![c] = "a_loop" ]
            /\ UNCHANGED << agent_connections, popped, open, exc, rx >>

\* receive_text returns `data`: one pass of the loop of ws_agent, up to the
\* first send of the broadcast.
AgentRecv(c, data) ==
    /\ role[c] = "agent" /\ pc[c] = "a_loop"
    /\ nmsg < MaxMsg
    /\ nmsg' = nmsg + 1
    /\ UNCHANGED << agentVars, settings_AGENT_SECRET, role, sid, closeCode, first, tx,
                    admitted, lastCall, ncmd >>
    /\ IF data.k = "empty"
       THEN UNCHANGED << client_connections, agent_connections, popped, pc,
                         open, exc, bc, rx >>
       ELSE IF ~Decodes(data)
       THEN AgentExit(c, "JSONDecodeError")
            /\ UNCHANGED << client_connections, rx >>
       ELSE IF sid[c] \notin DOMAIN client_connections
       THEN UNCHANGED << client_connections, agent_connections, popped, pc,
                         open, exc, bc, rx >>
       ELSE BroadcastStep(c, NewFrame(json_loads(data),
                                      client_connections[sid[c]]))

\* A suspended send_json returns (or has raised): the broadcast goes on.
BroadcastResume(c) ==
    /\ role[c] = "agent" /\ pc[c] = "a_bcast"
    /\ BroadcastStep(c, bc[c])
    /\ UNCHANGED << agentVars, settings_AGENT_SECRET, role, sid, closeCode, first, tx,
                    admitted, lastCall, ncmd, nmsg >>

\* receive_text raises WebSocketDisconnect in the loop.
AgentDisconnect(c) ==
    /\ role[c] = "agent" /\ pc[c] = "a_loop"
    /\ ~open[c]
    /\ AgentExit(c, "WebSocketDisconnect")
    /\ UNCHANGED << agentVars, settings_AGENT_SECRET, client_connections, role, sid,
                    closeCode, first, rx, tx, admitted, lastCall, ncmd, nmsg >>

\* ------------------------------------------------------- specifications
Next ==
    \/ \E c \in Conn : PeerClose(c)
    \/ \E c \in Conn, s \in ServerIds : ViewerConnect(c, s)
    \/ \E c \in Conn, data \in CommandTexts : ViewerRecv(c, data)
    \/ \E c \in Conn : ViewerDisconnect(c)
    \/ \E c \in Conn, s \in ServerIds : AgentConnect(c, s)
    \/ \E c \in Conn, data \in HandshakeTexts : AgentHandshake(c, data)
    \/ \E c \in Conn : AgentHandshakeDisconnect(c)
    \/ \E c \in Conn, data \in TelemetryTexts : AgentRecv(c, data)
    \/ \E c \in Conn : BroadcastResume(c)
    \/ \E c \in Conn : AgentDisconnect(c)

Spec == Init /\ [][Next]_vars


\* The registry by itself, driven call by call with arbitrary handles (the
\* contract of MetricsConnectionManager; accept() of a handle returns).
RegConnectClient(ws, s) ==
    /\ client_connections' = connect_client(client_connections, ws, s)
    /\ lastCall' = [ lastCall EXCEPT ![<<s, ws>>] = "add" ]
    /\ UNCHANGED << agentVars, settings_AGENT_SECRET, agent_connections, role, sid, pc,
                    open, closeCode, exc, first, bc, rx, tx, admitted, popped,
                    ncmd, nmsg >>

RegDisconnectClient(ws, s) ==
    /\ client_connections' = disconnect_client(client_connections, ws, s)
    /\ lastCall' = [ lastCall EXCEPT ![<<s, ws>>] = "remove" ]
    /\ UNCHANGED << agentVars, settings_AGENT_SECRET, agent_connections, role, sid, pc,
                    open, closeCode, exc, first, bc, rx, tx, admitted, popped,
                    ncmd, nmsg >>

RegConnectAgent(ws, s) ==
    /\ agent_connections' = connect_agent(agent_connections, ws, s)
    /\ UNCHANGED << agentVars, settings_AGENT_SECRET, client_connections, role, sid, pc,
                    open, closeCode, exc, first, bc, rx, tx, admitted, popped,
                    lastCall, ncmd, nmsg >>

RegDisconnectAgent(s) ==
    /\ agent_connections' = disconnect_agent(agent_connections, s)
    /\ UNCHANGED << agentVars, settings_AGENT_SECRET, client_connections, role, sid, pc,
                    open, closeCode, exc, first, bc, rx, tx, admitted, popped,
                    lastCall, ncmd, nmsg >>

NextReg ==
    \/ \E ws \in Conn, s \in ServerIds : RegConnectClient(ws, s)
    \/ \E ws \in Conn, s \in ServerIds : RegDisconnectClient(ws, s)
    \/ \E ws \in Conn, s \in ServerIds : RegConnectAgent(ws, s)
    \/ \E s \in ServerIds : RegDisconnectAgent(s)

SpecReg == Init /\ [][NextReg]_vars


\* ============================================================== agent.py
\* The secrets a deployed hub may be configured with when the agent dials
\* it: the default of Settings, or the agent's own (AGENT_SECRET set in the
\* hub's environment).
DeployedSecrets == ConfiguredSecrets \cup {AGENT_SECRET}

\* ------------------------------------------------------ sampled resources
\* What one pass of collect_metrics meets when it reads the machine. For the
\* process table: every field readable; an access error raised in the body
\* of the loop; a field psutil filled with None because access was denied;
\* process_iter itself raising.
AllReads ==
    [ cpu : {"ok", "raises"}, ram : {"ok", "raises"}, net : {"ok", "raises"},
      procs : {"ok", "psutil_error", "none_field", "raises"},
      screen : {"ok", "locked", "error"} ]
AllOk ==
    [ cpu |-> "ok", ram |-> "ok", net |-> "ok", procs |-> "ok",
      screen |-> "ok" ]
\* The passes in which at most one read goes wrong.
Reads ==
    { r \in AllReads :
        Cardinality({ f \in DOMAIN r : r[f] # AllOk[f] }) <= 1 }

\* Some read of r does not go well.
ReadFails(r) ==
    \/ r.cpu # "ok" \/ r.ram # "ok" \/ r.net # "ok"
    \/ r.procs # "ok" \/ r.screen # "ok"

\* get_processes raises: its try covers the loop body only and its except
\* names three psutil errors, so round(None, 1) (TypeError) and an error of
\* the iterator leave the function.
get_processes_raises(p) == p \in {"none_field", "raises"}

\* capture_screen: every exception is caught and turned into a result.
capture_screen(r) ==
    IF r = "ok" THEN [ data |-> "jpeg", status |-> "ok", error |-> "None" ]
    ELSE IF r = "locked"
    THEN [ data |-> "None", status |-> "locked", error |-> "locked" ]
    ELSE [ data |-> "None", status |-> "error", error |-> "str(e)" ]

\* collect_metrics(include_screenshot): the snapshot, or the exception of a
\* read that nothing catches. A key that is not set is "absent"; None is a
\* key set to null.
collect_metrics(include_screenshot, r) ==
    IF \/ r.cpu = "raises" \/ r.ram = "raises" \/ r.net = "raises"
       \/ get_processes_raises(r.procs)
    THEN [ raised |-> TRUE, value |-> NoMetrics ]
    ELSE [ raised |-> FALSE,
           value |->
             [ t |-> "dict", x |-> "metrics",
               screenshot |->
                 IF include_screenshot
                 THEN capture_screen(r.screen).data ELSE "absent",
               screenshot_status |->
                 IF include_screenshot
                 THEN capture_screen(r.screen).status ELSE "absent",
               screenshot_error |->
                 IF include_screenshot
                 THEN capture_screen(r.screen).error ELSE "absent" ] ]

\* Mutant: every snapshot carries a screenshot.
take_ss_Always(n) == TRUE
\* agent.py:117, take_ss = (counter % 5 == 0)
take_ss(n) == n % 5 = 0

\* ---------------------------------------------------------------- commands
\* The command objects: a kill of a process that can be terminated, of a pid
\* that does not exist, of a process the agent may not touch, a kill without
\* pid, and an action the agent does not know.
KillTags == {"kill_live", "kill_gone", "kill_denied", "kill_nopid"}
command_action(v) ==
    IF v.x \in KillTags THEN "kill"
    ELSE IF v.x = "restart" THEN "restart" ELSE "None"

\* What the server may send to the agent.
AgentInbox ==
    { Garbage, Json(Arr, "spaced"), Json(Obj("restart"), "spaced"),
      Json(Obj("kill_live"), "spaced"), Json(Obj("kill_gone"), "spaced"),
      Json(Obj("kill_denied"), "spaced"), Json(Obj("kill_nopid"), "spaced") }

\* The body of the inner try of handle_commands for one message: what it
\* does, or the exception it raises.
handle_command(message) ==
    IF ~Decodes(message) THEN "JSONDecodeError"
    ELSE IF ~HasGet(json_loads(message)) THEN "AttributeError"
    ELSE IF command_action(json_loads(message)) # "kill" THEN "ignored"
    ELSE IF json_loads(message).x = "kill_nopid" THEN "ignored"
    ELSE IF json_loads(message).x = "kill_gone" THEN "NoSuchProcess"
    ELSE IF json_loads(message).x = "kill_denied" THEN "AccessDenied"
    ELSE "terminated"

IsException(o) ==
    o \in {"JSONDecodeError", "AttributeError", "NoSuchProcess", "AccessDenied"}

\* Mutant: the inner handler names json.JSONDecodeError only.
inner_except_catches_DecodeOnly(e) == e = "JSONDecodeError"
\* agent.py:93, `except Exception as e` inside the loop of handle_commands.
inner_except_catches(e) == TRUE

\* Mutant: the outer handler names the websocket error only.
run_agent_except_ClosedOnly(e) ==
    IF e = "ConnectionClosed" THEN "disconnected" ELSE "crashed"
\* agent.py:131-133, `except Exception` of run_agent: print, sleep(5), and
\* the `while True` goes round.
run_agent_except(e) == "disconnected"

\* ----------------------------------------------------------------- run_agent
\* Mutant: the first text is no credential.
auth_payload_Hello == Obj("hello")
\* agent.py:108, auth_payload = {"secret": AGENT_SECRET}
auth_payload == Auth(AGENT_SECRET)

\* Mutant: the counter goes on from where the last transport left it.
counter_start_Resume == counter
\* agent.py:115, `counter = 0` inside `async with`.
counter_start == 0

\* The exit of `async with` with e in flight, and the handler it lands in.
AgentClose(e) ==
    /\ websocket' = "none"
    /\ agent_pc' = run_agent_except(e)
    /\ agent_exc' = "none"

\* Mutant: the finally neither cancels nor awaits the task.
AgentLeave_NoAwait(e, task) ==
    /\ command_task' = task
    /\ AgentClose(e)
\* agent.py:124-129 with e in flight: command_task.cancel() and
\* `await command_task`, which suspends unless the task is over already.
AgentLeave(e, task) ==
    IF task = "waiting"
    THEN /\ command_task' = "cancelling"
         /\ agent_pc' = "awaiting_task"
         /\ agent_exc' = e
         /\ websocket' = websocket
    ELSE /\ command_task' = task
         /\ AgentClose(e)

\* agent.py:117-119 for tick n: collect_metrics, then the send suspends.
AgentPublish(n, r, task) ==
    IF collect_metrics(take_ss(n), r).raised
    THEN /\ AgentLeave("ResourceError", task)
         /\ metrics' = metrics
    ELSE /\ metrics' = collect_metrics(take_ss(n), r).value
         /\ agent_pc' = "sending"
         /\ command_task' = task
         /\ UNCHANGED << websocket, agent_exc >>

\* The top of `while True`: websockets.connect is called (at start-up, or
\* when the sleep(5) of the handler is over). The locals counter and
\* command_task keep the values of the last pass.
AgentDial ==
    /\ agent_pc = "disconnected"
    /\ agent_pc' = "connecting"
    /\ hub_reply' = "none"
    /\ sent' = << >>
    /\ handled' = << >>
    /\ metrics' = NoMetrics
    /\ UNCHANGED << websocket, counter, command_task, agent_exc, prev_take_ss >>
    /\ UNCHANGED << settings_AGENT_SECRET, hubVars >>

\* websockets.connect returns the transport, or raises.
AgentConnected(ok) ==
    /\ agent_pc = "connecting"
    /\ IF ok
       THEN /\ websocket' = "open"
            /\ agent_pc' = "authenticating"
            /\ agent_exc' = agent_exc
       ELSE AgentClose("OSError")
    /\ UNCHANGED << hub_reply, counter, metrics, sent, command_task, handled,
                    prev_take_ss >>
    /\ UNCHANGED << settings_AGENT_SECRET, hubVars >>

\* agent.py:108-119: the send of the credential returns (or raises); the
\* command task is created, the counter starts at 0 and tick 0 is collected.
AgentAuthSent(r) ==
    /\ agent_pc = "authenticating"
    /\ IF websocket = "open"
       THEN /\ sent' = << json_dumps(auth_payload) >>
            /\ hub_reply' = "pending"
            /\ counter' = counter_start
            /\ prev_take_ss' = take_ss(counter)
            /\ AgentPublish(counter_start, r, "waiting")
       ELSE /\ AgentClose("ConnectionClosed")
            /\ UNCHANGED << sent, hub_reply, counter, metrics, command_task,
                            prev_take_ss >>
    /\ UNCHANGED handled
    /\ UNCHANGED << settings_AGENT_SECRET, hubVars >>

\* agent.py:119-123: the send of the snapshot returns, the counter goes up
\* and the sleep starts; or the send raises ConnectionClosed.
AgentSent ==
    /\ agent_pc = "sending"
    /\ IF websocket = "open"
       THEN /\ counter < MaxTick
            /\ sent' = Append(sent, json_dumps(metrics))
            /\ counter' = counter + 1
            /\ agent_pc' = "sleeping"
            /\ UNCHANGED << websocket, command_task, agent_exc >>
       ELSE /\ AgentLeave("ConnectionClosed", command_task)
            /\ UNCHANGED << sent, counter >>
    /\ UNCHANGED << hub_reply, metrics, handled, prev_take_ss >>
    /\ UNCHANGED << settings_AGENT_SECRET, hubVars >>

\* asyncio.sleep(UPDATE_INTERVAL) is over: the next tick is collected.
AgentTick(r) ==
    /\ agent_pc = "sleeping"
    /\ AgentPublish(counter, r, command_task)
    /\ UNCHANGED << hub_reply, counter, sent, handled, prev_take_ss >>
    /\ UNCHANGED << settings_AGENT_SECRET, hubVars >>

\* The cancelled task runs: CancelledError is raised at its await, which
\* neither handler of handle_commands catches.
AgentTaskCancelled ==
    /\ command_task = "cancelling"
    /\ command_task' = "cancelled"
    /\ UNCHANGED << agent_pc, websocket, hub_reply, counter, metrics, sent,
                    handled, agent_exc, prev_take_ss >>
    /\ UNCHANGED << settings_AGENT_SECRET, hubVars >>

\* agent.py:127-129: `await command_task` raises CancelledError, which is
\* passed over; the exception in flight leaves the `async with`.
AgentFinallyDone ==
    /\ agent_pc = "awaiting_task"
    /\ command_task = "cancelled"
    /\ AgentClose(agent_exc)
    /\ UNCHANGED << hub_reply, counter, metrics, sent, command_task, handled,
                    prev_take_ss >>
    /\ UNCHANGED << settings_AGENT_SECRET, hubVars >>

\* ----------------------------------------------------------- handle_commands
\* `async for message in websocket` yields a message: one pass of the loop.
AgentCmdRecv(message) ==
    /\ command_task = "waiting"
    /\ websocket = "open"
    /\ Len(handled) < MaxCmd
    /\ handled' = Append(handled, handle_command(message))
    /\ command_task' =
         IF /\ IsException(handle_command(message))
            /\ ~inner_except_catches(handle_command(message))
         THEN "failed" ELSE "waiting"
    /\ UNCHANGED << agent_pc, websocket, hub_reply, counter, metrics, sent,
                    agent_exc, prev_take_ss >>
    /\ UNCHANGED << settings_AGENT_SECRET, hubVars >>

\* The iteration ends, or raises ConnectionClosed, which is passed over.
AgentCmdClosed ==
    /\ command_task = "waiting"
    /\ websocket = "closed"
    /\ command_task' = "finished"
    /\ UNCHANGED << agent_pc, websocket, hub_reply, counter, metrics, sent,
                    handled, agent_exc, prev_take_ss >>
    /\ UNCHANGED << settings_AGENT_SECRET, hubVars >>

\* ------------------------------------------------------------ the server
\* The hub reads the agent's first text (app.py:661-665): it installs the
\* agent, or closes the transport with 4001.
HubAnswers ==
    /\ hub_reply = "pending"
    /\ websocket = "open"
    /\ IF HandshakeOK(sent[1], settings_AGENT_SECRET)
       THEN hub_reply' = "admitted" /\ websocket' = websocket
       ELSE hub_reply' = "rejected" /\ websocket' = "closed"
    /\ UNCHANGED << agent_pc, counter, metrics, sent, command_task, handled,
                    agent_exc, prev_take_ss >>
    /\ UNCHANGED << settings_AGENT_SECRET, hubVars >>

\* The server or the network goes away.
LinkDrop ==
    /\ websocket = "open"
    /\ websocket' = "closed"
    /\ UNCHANGED << agent_pc, hub_reply, counter, metrics, sent, command_task,
                    handled, agent_exc, prev_take_ss >>
    /\ UNCHANGED << settings_AGENT_SECRET, hubVars >>

InitAgent ==
    /\ settings_AGENT_SECRET \in DeployedSecrets
    /\ HubInit
    /\ AgentInit

NextAgent ==
    \/ AgentDial
    \/ \E ok \in BOOLEAN : AgentConnected(ok)
    \/ \E r \in Reads : AgentAuthSent(r)
    \/ AgentSent
    \/ \E r \in Reads : AgentTick(r)
    \/ AgentTaskCancelled
    \/ AgentFinallyDone
    \/ \E message \in AgentInbox : AgentCmdRecv(message)
    \/ AgentCmdClosed
    \/ HubAnswers
    \/ LinkDrop

\* The agent's event loop runs every task that is ready: run_agent when the
\* await it is suspended in is over (a connect attempt ends by open_timeout
\* at the latest, a send returns or raises, a sleep ends), and the command
\* task when it was cancelled. Nothing is assumed of the server or of the
\* network.
AgentFairness ==
    /\ WF_vars(AgentDial)
    /\ WF_vars(agent_pc = "connecting" /\ \E ok \in BOOLEAN : AgentConnected(ok))
    /\ WF_vars(agent_pc = "authenticating" /\ \E r \in Reads : AgentAuthSent(r))
    /\ WF_vars(AgentSent)
    /\ WF_vars(agent_pc = "sleeping" /\ \E r \in Reads : AgentTick(r))
    /\ WF_vars(AgentTaskCancelled)
    /\ WF_vars(AgentFinallyDone)

SpecAgent == InitAgent /\ [][NextAgent]_vars /\ AgentFairness


\* ================================================================ claims
Last(seq) == seq[Len(seq)]
Admitted(c) == \E i \in 1..Len(admitted[sid[c]]) : admitted[sid[c]][i] = c
\* A handler that has passed the handshake leaves its loop in this step.
AgentExits(c) ==
    role[c] = "agent" /\ pc[c] \in {"a_loop", "a_bcast"} /\ pc'[c] = "done"

\* C1: in every reachable state each sid maps to at most one agent transport
\* in agent_connections, whatever connects, handshakes, supersedes and
\* disconnects have happened.
C1_AtMostOneAgentPerSid ==
    \A s \in ServerIds : Cardinality(Lookup(agent_connections, s)) <= 1

\* A second agent has been installed for a sid and the sid is still mapped.
C1_Witness ==
    \E s \in ServerIds : Len(admitted[s]) >= 2 /\ HasKey(agent_connections, s)

\* Two or more agents were installed for s and disconnect_agent(s) has not
\* run since the last of them.
Superseded(s) == Len(admitted[s]) >= 2 /\ popped[s] = "no"

\* C2: after t1 and then t2 were installed for S, and until the next install
\* or removal for S, exactly t2 is mapped for S, and every command a viewer
\* of S sends goes to t2 (when the send succeeds) and never to another
\* transport.
C2_RelayGoesToNewest ==
    /\ [](\A s \in ServerIds :
            Superseded(s) => Lookup(agent_connections, s) = {Last(admitted[s])})
    /\ [][\A s \in ServerIds : Superseded(s) =>
            \A v \in Conn, data \in CommandTexts :
              (sid[v] = s /\ ViewerRecv(v, data)) =>
                /\ \A a \in Conn \ {Last(admitted[s])} : tx'[a] = tx[a]
                /\ (Decodes(data) /\ open[Last(admitted[s])]) =>
                     tx'[Last(admitted[s])] =
                       Append(tx[Last(admitted[s])], json_dumps(json_loads(data)))
         ]_vars

\* t2 superseded t1 and a command was relayed to t2, none to t1.
C2_Witness ==
    \E s \in ServerIds :
      /\ Superseded(s)
      /\ tx[Last(admitted[s])] # << >>
      /\ tx[admitted[s][1]] = << >>
      /\ pc[admitted[s][1]] = "a_loop"

\* C3: when the handler of an agent that is not (or no longer) the one
\* mapped for its sid exits, the mapping stays as it is: a stale disconnect
\* does not evict the newer session.
C3_StaleDisconnectKeepsNewer ==
    [][\A c \in Conn :
         (AgentExits(c) /\ Lookup(agent_connections, sid[c]) # {c}) =>
           agent_connections' = agent_connections
      ]_vars

\* The first text of c was read and is malformed or does not carry the
\* configured secret.
BadFirst(c) ==
    /\ first[c] # NoText
    /\ ~(/\ first[c].k = "json"
         /\ first[c].v.t = "auth"
         /\ first[c].v.x = settings_AGENT_SECRET)

\* C4: an agent connection whose first message is malformed or carries
\* another secret than the configured one is closed with 4001 and never
\* installed, and the step that rejects it leaves agent_connections and
\* client_connections as they are.
C4_RejectedNeverInstalled ==
    /\ [](\A c \in Conn : BadFirst(c) =>
            /\ closeCode[c] = RejectCode
            /\ pc[c] = "done"
            /\ ~Admitted(c)
            /\ \A s \in ServerIds : <<s, c>> \notin agent_connections)
    /\ [][\A c \in Conn : (first[c] = NoText /\ BadFirst(c)') =>
            UNCHANGED << agent_connections, client_connections >>
         ]_vars

\* A handshake was rejected while another agent stays mapped for the sid.
C4_Witness ==
    \E c, d \in Conn :
      /\ BadFirst(c) /\ closeCode[c] = RejectCode
      /\ d < c /\ <<sid[c], d>> \in agent_connections


\* The broadcast of agent c attempts its send to ws in this step.
SendsTo(c, ws) ==
    role[c] = "agent" /\ bc'[c].active /\ ws \in bc'[c].visited \ bc[c].visited
\* The broadcast of agent c returns in this step, after at least one send.
BroadcastReturns(c) ==
    role[c] = "agent" /\ pc[c] = "a_bcast" /\ pc'[c] = "a_loop"
\* No viewer is registered for s.
NoViewers(s) ==
    s \notin DOMAIN client_connections \/ client_connections[s] = {}

C6_RelayWithoutAgentIsNoOp ==
    [][\A v \in Conn, data \in CommandTexts :
         ( /\ ViewerRecv(v, data)
           /\ Decodes(data)
           /\ ~HasKey(agent_connections, sid[v]) ) =>
             /\ pc'[v] = "v_loop" /\ exc'[v] = "none"
             /\ UNCHANGED << tx, rx, client_connections, agent_connections,
                             pc, open, exc, closeCode, bc >>
      ]_vars

\* A viewer's command was read although no agent was ever installed for its
\* sid; the viewer is still registered and in its loop.
C6_Witness ==
    \E v \in Conn :
      /\ role[v] = "viewer" /\ ncmd[v] > 0
      /\ admitted[sid[v]] = << >>
      /\ pc[v] = "v_loop"
      /\ sid[v] \in DOMAIN client_connections
      /\ v \in client_connections[sid[v]]
      /\ \E a \in Conn : role[a] = "agent" /\ pc[a] = "a_loop" /\ tx[a] = << >>

\* ws is in the viewer set of s.
Registered(s, ws) ==
    s \in DOMAIN client_connections /\ ws \in client_connections[s]

\* C7: after any sequence of connect_client/disconnect_client calls, a
\* transport is in the viewer set of a sid iff its last call for that sid was
\* connect_client; connecting a transport that is present and disconnecting
\* one that is absent (or whose sid has no set) change nothing.
C7_ViewerSetIsNetMembership ==
    /\ [](\A s \in ServerIds, ws \in Conn :
            Registered(s, ws) <=> lastCall[<<s, ws>>] = "add")
    /\ [][\A s \in ServerIds, ws \in Conn :
            /\ (RegConnectClient(ws, s) /\ Registered(s, ws)) =>
                 client_connections' = client_connections
            /\ (RegDisconnectClient(ws, s) /\ ~Registered(s, ws)) =>
                 client_connections' = client_connections
         ]_vars

\* One transport was added and removed again, another was added and is the
\* only member, and a removal was called for a sid that has no set.
C7_Witness ==
    \E s, t \in ServerIds, a, b \in Conn :
      /\ a # b
      /\ lastCall[<<s, a>>] = "remove" /\ lastCall[<<s, b>>] = "add"
      /\ s \in DOMAIN client_connections /\ client_connections[s] = {b}
      /\ lastCall[<<t, b>>] = "remove" /\ t \notin DOMAIN client_connections

C9_BuiltInCredentialAdmitted ==
    \A c \in Conn :
      first[c] = Json(Auth(AGENT_SECRET), "spaced") =>
        (Admitted(c) /\ closeCode[c] # RejectCode)

\* C10: when the handler of the agent mapped for S exits, no agent is mapped
\* for S afterwards, the viewer sets, the viewers' handlers and transports
\* are untouched, and from then until the next install for S the viewers of
\* S receive nothing.
C10_AgentCloseLeavesViewers ==
    /\ [][\A c \in Conn :
            (AgentExits(c) /\ Lookup(agent_connections, sid[c]) = {c}) =>
              /\ ~HasKey(agent_connections', sid[c])
              /\ client_connections' = client_connections
              /\ \A v \in Conn : role[v] = "viewer" =>
                   pc'[v] = pc[v] /\ open'[v] = open[v] /\ rx'[v] = rx[v]
         ]_vars
    /\ [][\A v \in Conn :
            (role[v] = "viewer" /\ popped[sid[v]] = "own") => rx'[v] = rx[v]
         ]_vars

\* ------------------------------------------------------- claims C11..C16
\* The viewer set of c's sid is no longer the one c's broadcast started on.
MembershipChanged(c) ==
    bc[c].deleted \/ client_connections[sid[c]] # bc[c].start

\* C11: when a viewer of S has connected or disconnected while a broadcast
\* for S was suspended in a send, the broadcast goes on without raising: the
\* agent's handler stays in its loop, the agent stays mapped, and a broadcast
\* that returns has attempted every viewer registered throughout.
C11_BroadcastSafeUnderMembershipChange ==
    [][\A c \in Conn :
         (BroadcastResume(c) /\ MembershipChanged(c)) =>
           /\ pc'[c] \in {"a_bcast", "a_loop"}
           /\ exc'[c] = "none"
           /\ agent_connections' = agent_connections
           /\ pc'[c] = "a_loop" =>
                (client_connections[sid[c]] \cap bc[c].start)
                   \subseteq bc[c].visited
      ]_vars

\* One step of the hub on transport c.
HubEvent(c) ==
    \/ PeerClose(c)
    \/ \E s \in ServerIds : ViewerConnect(c, s)
    \/ \E data \in CommandTexts : ViewerRecv(c, data)
    \/ ViewerDisconnect(c)
    \/ \E s \in ServerIds : AgentConnect(c, s)
    \/ \E data \in HandshakeTexts : AgentHandshake(c, data)
    \/ AgentHandshakeDisconnect(c)
    \/ \E data \in TelemetryTexts : AgentRecv(c, data)
    \/ BroadcastResume(c)
    \/ AgentDisconnect(c)

\* The viewer set of s, empty when s has no key.
ViewerSet(cc, s) == IF s \in DOMAIN cc THEN cc[s] ELSE {}

\* C12: a step of the hub on a transport of sid S (connect, handshake,
\* reject, telemetry, broadcast send, command relay, disconnect, failed send)
\* leaves, for every other sid S', the agent mapped for S', the viewer set
\* and the key of S', and everything delivered to, and the handler of, every
\* transport of S' as they were.
C12_OtherSidUntouched ==
    [][\A c \in Conn, s \in ServerIds :
         (HubEvent(c) /\ sid'[c] # s) =>
           /\ Lookup(agent_connections', s) = Lookup(agent_connections, s)
           /\ (s \in DOMAIN client_connections') = (s \in DOMAIN client_connections)
           /\ ViewerSet(client_connections', s) = ViewerSet(client_connections, s)
           /\ \A t \in Conn : sid[t] = s =>
                /\ rx'[t] = rx[t] /\ tx'[t] = tx[t]
                /\ pc'[t] = pc[t] /\ open'[t] = open[t] /\ exc'[t] = exc[t]
                /\ bc'[t] = bc[t] /\ closeCode'[t] = closeCode[t]
      ]_vars

\* A handler of one sid was ended by a failure while, for the other sid, a
\* viewer accepted before it is still registered and untouched and an agent
\* accepted before it is still mapped.
C12_Witness ==
    \E c, v, a \in Conn :
      /\ exc[c] \in {"JSONDecodeError", "SendError", "RuntimeError"}
      /\ v < c /\ a < c
      /\ role[v] = "viewer" /\ sid[v] # sid[c] /\ Registered(sid[v], v)
      /\ pc[v] = "v_loop" /\ open[v] /\ rx[v] = << >>
      /\ role[a] = "agent" /\ sid[a] = sid[v]
      /\ <<sid[a], a>> \in agent_connections /\ pc[a] = "a_loop"

\* C13: when the send to the mapped agent fails while the hub relays a
\* viewer's command, the viewer stays in its viewer set, its handler stays in
\* its loop and its transport stays as it was.
C13_RelayFailureSparesViewer ==
    [][\A v \in Conn, data \in CommandTexts :
         ( /\ ViewerRecv(v, data)
           /\ data.k = "json"
           /\ \E a \in relay_targets(agent_connections, sid[v]) : ~open[a] ) =>
             /\ pc'[v] = "v_loop"
             /\ open'[v] = open[v]
             /\ Registered(sid[v], v) => Registered(sid[v], v)'
      ]_vars

\* C14: a text that is not JSON, read from a viewer or from an agent past
\* its handshake, is dropped: the handler stays in its loop, the transport
\* stays as it was, and both registries are unchanged.
C14_MalformedIsDiscarded ==
    [][\A c \in Conn :
         ( \/ \E data \in CommandTexts : ViewerRecv(c, data) /\ data.k = "bad"
           \/ \E data \in TelemetryTexts : AgentRecv(c, data) /\ data.k = "bad" ) =>
             /\ pc'[c] = pc[c]
             /\ open'[c] = open[c]
             /\ client_connections' = client_connections
             /\ agent_connections' = agent_connections
      ]_vars

\* The send of some running broadcast to ws has failed.
MarkedDead(ws) == \E a \in Conn : bc[a].active /\ ws \in bc[a].dead

\* C15: a broadcast attempts each viewer at most once; when a broadcast ends
\* (it returns or its handler exits), every transport whose send failed in it
\* is out of the viewer set; and no broadcast attempts a send to a transport
\* whose send has already failed.
C15_OneAttemptThenRemoved ==
    [][\A c \in Conn :
         /\ \A ws \in Conn : SendsTo(c, ws) =>
              /\ ws \notin bc[c].visited
              /\ ~MarkedDead(ws)
         /\ (bc[c].active /\ ~bc'[c].active) =>
              \A ws \in bc[c].dead : ~Registered(sid[c], ws)'
      ]_vars

\* The JSON values of TelemetryTexts.
TelemetryValues == { t.v : t \in { x \in TelemetryTexts : x.k = "json" } }

\* C16: every text a viewer has received is the serialisation of a JSON
\* value an agent past its handshake sent as telemetry; a step that reads an
\* agent's first text, or a text that does not decode, delivers nothing and
\* starts no broadcast; a refused connection never reaches the loop.
C16_OnlyDecodedTelemetryFansOut ==
    /\ [](\A v \in Conn : \A i \in 1..Len(rx[v]) :
            /\ rx[v][i].k = "json"
            /\ rx[v][i].v \in TelemetryValues)
    /\ [](\A c \in Conn : closeCode[c] = RejectCode =>
            (pc[c] = "done" /\ ~bc[c].active /\ ~Admitted(c)))
    /\ [][/\ \A c \in Conn, data \in HandshakeTexts :
               AgentHandshake(c, data) => (rx' = rx /\ ~bc'[c].active)
          /\ \A c \in Conn, data \in TelemetryTexts :
               (AgentRecv(c, data) /\ data.k # "json") =>
                 (rx' = rx /\ ~bc'[c].active)
          /\ \A v \in Conn : rx'[v] # rx[v] =>
               \E c \in Conn :
                 /\ Admitted(c) /\ closeCode[c] # RejectCode
                 /\ bc'[c].active /\ bc'[c].data \in TelemetryValues
                 /\ rx'[v] = Append(rx[v], send_json_text(bc'[c].data))
         ]_vars

\* A viewer accepted first is registered and has received nothing, although
\* an agent of its sid was admitted and then sent a text that is not JSON,
\* and another connection of its sid sent telemetry as its first text and
\* was refused.
C16_Witness ==
    \E v, a, r \in Conn :
      /\ v < a /\ v < r
      /\ role[v] = "viewer" /\ Registered(sid[v], v) /\ open[v]
      /\ rx[v] = << >>
      /\ role[a] = "agent" /\ sid[a] = sid[v] /\ Admitted(a)
      /\ exc[a] = "JSONDecodeError"
      /\ role[r] = "agent" /\ sid[r] = sid[v]
      /\ first[r] = Json(Obj("m1"), "spaced") /\ closeCode[r] = RejectCode

\* ------------------------------------------------------- claims C17..C20
\* run_agent is in its publish loop.
Streaming == agent_pc \in {"sending", "sleeping"}

\* C17: on one transport the snapshot of tick n (the n-th text after the
\* credential, counted from 0) carries the keys screenshot,
\* screenshot_status and screenshot_error iff n mod 5 = 0, and so does the
\* snapshot whose send is under way; the tick of a snapshot is the value of
\* the counter when it was collected.
C17_ScreenshotEveryFifthTick ==
    /\ \A i \in 2..Len(sent) :
         /\ (json_loads(sent[i]).screenshot # "absent") <=> ((i - 2) % 5 = 0)
         /\ (json_loads(sent[i]).screenshot_status # "absent")
               <=> ((i - 2) % 5 = 0)
         /\ (json_loads(sent[i]).screenshot_error # "absent")
               <=> ((i - 2) % 5 = 0)
    /\ Streaming => Len(sent) = counter + 1
    /\ agent_pc = "sending" =>
         ((metrics.screenshot # "absent") <=> (counter % 5 = 0))

\* Ticks 0..9 were published on one transport; the capture worked on tick 0
\* and failed on tick 5 (the keys are there, the picture is null).
C17_Witness ==
    /\ Len(sent) = 11
    /\ json_loads(sent[2]).screenshot = "jpeg"
    /\ json_loads(sent[7]).screenshot = "None"
    /\ json_loads(sent[7]).screenshot_status = "error"

\* C18: run_agent is never in a state it cannot leave; a connect that fails
\* and a send that raises lead to the handler of run_agent (through the
\* cancellation of the command task); a transport that is closed (a refused
\* handshake, a lost connection) is always followed by Disconnected, and
\* Disconnected is always followed by a new connect attempt.
C18_AgentAlwaysRetries ==
    /\ [](agent_pc \in {"disconnected", "connecting", "authenticating",
                        "sending", "sleeping", "awaiting_task"})
    /\ [][/\ (agent_pc = "connecting" /\ AgentConnected(FALSE)) =>
               agent_pc' = "disconnected"
          /\ (agent_pc = "authenticating" /\ websocket # "open"
                /\ \E r \in Reads : AgentAuthSent(r)) =>
               agent_pc' = "disconnected"
          /\ (agent_pc = "sending" /\ websocket # "open" /\ AgentSent) =>
               agent_pc' \in {"awaiting_task", "disconnected"}
         ]_vars
    /\ (agent_pc = "awaiting_task" \/ websocket = "closed")
          ~> (agent_pc = "disconnected")
    /\ (agent_pc = "disconnected") ~> (agent_pc = "connecting")

\* The agent streamed, its handshake was refused, and it is dialling again.
C18_Witness ==
    /\ agent_pc = "connecting"
    /\ counter >= 1
    /\ settings_AGENT_SECRET # AGENT_SECRET

\* C19: a tick on which a read of the CPU, the memory, the network
\* counters, the process table or the screen fails still produces its
\* snapshot, whose send starts, and leaves the transport and the command
\* task as they are.
C19_ResourceErrorsDegrade ==
    [][\A r \in Reads :
         ( /\ ReadFails(r)
           /\ \/ AgentTick(r)
              \/ (websocket = "open" /\ AgentAuthSent(r)) ) =>
             /\ agent_pc' = "sending"
             /\ metrics'.t = "dict"
             /\ websocket' = websocket
             /\ command_task' \in {"waiting", "finished"}
      ]_vars

\* C20: a pass of the command loop appends the outcome of its message and
\* leaves the task waiting for the next message, whatever the message: not
\* JSON, no object, unknown action, kill without pid, kill of a missing or
\* forbidden process; the publish loop, the transport and what was sent are
\* untouched.
C20_CommandLoopSkipsFailures ==
    [][\A message \in AgentInbox :
         AgentCmdRecv(message) =>
           /\ handled' = Append(handled, handle_command(message))
           /\ command_task' = "waiting"
           /\ UNCHANGED << agent_pc, counter, metrics, sent, websocket,
                           hub_reply, agent_exc >>
      ]_vars

\* A command that raised was followed by a kill that was carried out, while
\* the publish loop went on.
C20_Witness ==
    /\ Len(handled) = 2
    /\ IsException(handled[1])
    /\ handled[2] = "terminated"
    /\ command_task = "waiting"
    /\ Streaming /\ counter >= 1

\* ------------------------------------------------------- claims C23..C27
\* C23: the hub reads the next text of an agent connection only when no
\* broadcast of that connection is running; the payload of a running
\* broadcast does not change; and every delivery to a viewer appends the
\* payload of the broadcast that sends it to what the viewer has received.
\* So a viewer receives the telemetry of one agent connection in the order
\* the hub read it.
C23_TelemetryInOrder ==
    [][/\ \A c \in Conn, data \in TelemetryTexts :
            AgentRecv(c, data) =>
              /\ pc[c] = "a_loop" /\ ~bc[c].active
              /\ bc'[c].active => bc'[c].data = json_loads(data)
       /\ \A c \in Conn :
            (bc[c].active /\ bc'[c].active) => bc'[c].data = bc[c].data
       /\ \A v \in Conn : rx'[v] # rx[v] =>
            \E c \in Conn :
              /\ SendsTo(c, v)
              /\ rx'[v] = Append(rx[v], send_json_text(bc'[c].data))
      ]_vars

\* A viewer has received both texts of the one agent of its sid, the text
\* read second after the text read first.
C23_Witness ==
    \E v, c \in Conn :
      /\ role[v] = "viewer" /\ role[c] = "agent" /\ sid[c] = sid[v]
      /\ admitted[sid[v]] = << c >>
      /\ Len(rx[v]) = 2 /\ rx[v][1] # rx[v][2]
      /\ pc[c] = "a_loop"

\* C24: every transport in a viewer set is a viewer of that sid whose
\* handler is in its loop; a viewer handler that has exited, for whatever
\* reason, is in no viewer set.
C24_NoClosedViewerRegistered ==
    /\ \A s \in DOMAIN client_connections : \A ws \in client_connections[s] :
         role[ws] = "viewer" /\ sid[ws] = s /\ pc[ws] = "v_loop"
    /\ \A c \in Conn : (role[c] = "viewer" /\ pc[c] = "done") =>
         \A s \in ServerIds : ~Registered(s, c)

\* A viewer handler was ended by a text that is not JSON while another
\* viewer of the same sid stays registered.
C24_Witness ==
    \E c, d \in Conn :
      /\ role[c] = "viewer" /\ pc[c] = "done" /\ exc[c] = "JSONDecodeError"
      /\ role[d] = "viewer" /\ sid[d] = sid[c] /\ Registered(sid[d], d)

\* C25: once t2 has superseded t1 for S (and until the next install or
\* removal for S), no broadcast of an agent of S other than t2 sends
\* anything to a viewer.
C25_SupersededAgentNotBroadcast ==
    [][\A s \in ServerIds : Superseded(s) =>
         \A c \in Conn \ {Last(admitted[s])} :
           sid[c] = s => \A ws \in Conn : ~SendsTo(c, ws)
      ]_vars

\* C26: a step of ws_metrics that relays a command to an agent is a step of
\* a viewer that is in the viewer set of its sid.
C26_RelayOnlyFromMembers ==
    [][\A v \in Conn, data \in CommandTexts :
         (ViewerRecv(v, data) /\ tx' # tx) => Registered(sid[v], v)
      ]_vars

\* C27: a transport that agent_connections holds for S has passed the
\* handshake, is the last one installed for S, and its handler is still in
\* its loop (or in a broadcast).
C27_RegistryHoldsLiveNewestAgent ==
    \A it \in agent_connections :
      /\ role[it[2]] = "agent" /\ sid[it[2]] = it[1]
      /\ admitted[it[1]] # << >> /\ Last(admitted[it[1]]) = it[2]
      /\ HandshakeOK(first[it[2]], settings_AGENT_SECRET)
      /\ pc[it[2]] \in {"a_loop", "a_bcast"}

\* An agent handler has exited and a later agent of the same sid is mapped.
C27_Witness ==
    \E a, b \in Conn :
      /\ a < b /\ role[a] = "agent" /\ Admitted(a) /\ pc[a] = "done"
      /\ <<sid[a], b>> \in agent_connections

\* -------------------------------------------------- claims C21, C22, C28
\* A command loop is alive: its task was created and is not over.
CommandLoopAlive == command_task \in {"waiting", "cancelling"}

\* C21: outside a session (Disconnected, connecting, authenticating) no
\* command loop is alive, so the loop of a new session is created when the
\* one before is over and two are never alive; a loop that can still take a
\* command exists only while run_agent is in its publish loop; a step that
\* leaves the publish loop leaves the loop cancelled or over; a command is
\* executed only in the publish loop; and run_agent goes from the finally
\* to Disconnected only with the task over.
C21_CommandLoopEndsWithSession ==
    /\ [](agent_pc \in {"disconnected", "connecting", "authenticating"}
            => ~CommandLoopAlive)
    /\ [](command_task = "waiting" => Streaming)
    /\ [][/\ (Streaming /\ ~Streaming') => command_task' # "waiting"
          /\ (\E message \in AgentInbox : AgentCmdRecv(message)) => Streaming
          /\ (agent_pc # "disconnected" /\ agent_pc' = "disconnected") =>
                command_task' \in {"none", "cancelled", "finished"}
          /\ (command_task' = "waiting" /\ command_task # "waiting") =>
                ~CommandLoopAlive
         ]_vars

\* A session executed a command, its publish loop ended, the command loop
\* was cancelled and awaited, and run_agent is in its handler.
C21_Witness ==
    /\ agent_pc = "disconnected"
    /\ command_task = "cancelled"
    /\ Len(handled) >= 1
    /\ Len(sent) >= 2

C28_CounterRestartsPerTransport ==
    /\ [](/\ Len(sent) >= 2 => json_loads(sent[2]).screenshot # "absent"
          /\ (agent_pc = "sending" /\ Len(sent) = 1) =>
               metrics.screenshot # "absent")
    /\ [][/\ \A r \in Reads :
               (websocket = "open" /\ AgentAuthSent(r)) => counter' = 0
          /\ counter' # counter =>
               \/ \E r \in Reads : AgentAuthSent(r)
               \/ /\ AgentSent /\ websocket = "open"
                  /\ counter' = counter + 1
                  /\ sent' = Append(sent, json_dumps(metrics))
         ]_vars

\* The transport before stopped at a tick that would not have taken a
\* screenshot, and the first snapshot of this transport carries one.
C28_Witness ==
    /\ ~prev_take_ss
    /\ Len(sent) >= 2
    /\ json_loads(sent[2]).screenshot = "jpeg"
    /\ counter >= 1

====
